---- MODULE Spec2Model ----
(***************************************************************************)
(* imap_dmarc_extract: the per-message pipeline of src/main.rs.            *)
(*                                                                         *)
(* main() iterates over the fetched messages; for each one it parses the   *)
(* mail, calls get_attachment, decompress_attachment, creates the output   *)
(* file and writes the decompressed bytes.  A Rust panic (unwrap / expect  *)
(* on an Err or None) ends the process: pc = "panicked".                   *)
(*                                                                         *)
(* Text (file names) is a sequence of one-character strings, so that the   *)
(* extension handling of PathBuf::with_extension is computed, not assumed. *)
(* Byte buffers handed to the zip and gzip decoders are abstracted by what *)
(* the decoders make of them (see Bytes below).                            *)
(***************************************************************************)
EXTENDS Integers, Sequences, FiniteSets, TLC

VARIABLES
    pc,             \* where main() is: "loop", "get_attachment", "decompress",
                    \* "create", "write", "finished", "panicked"
    message_count,  \* number of messages the mailbox holds (inbox.exists)
    idx,            \* number of messages the for loop has taken so far
    message,        \* the fetched message of the current iteration
                    \* (NoMessage between iterations)
    attachment,     \* main's local `attachment`
    files,          \* the output directory: file name -> content
    stderr,         \* the diagnostics eprintln!-ed for the current message
    state,          \* pipeline state of the current message
    panic           \* the call whose unwrap/expect panicked ("" if none)

vars == <<pc, message_count, idx, message, attachment, files, stderr, state, panic>>

----------------------------------------------------------------------------
(* Bounds of the model *)

MaxBatch == 2       \* messages in the mailbox
MaxSubparts == 2    \* immediate children of the top-level part
MaxEntries == 2     \* entries of a zip archive
MaxNameLen == 5     \* characters of a declared file name (SpecNames)

----------------------------------------------------------------------------
(* Values *)

None == <<>>
Some(x) == <<x>>

USABLE_MIMETYPES ==
    <<"application/zip", "application/gzip", "application/octet-stream">>

\* slice::contains
Contains(seq, x) == \E i \in 1..Len(seq) : seq[i] = x

MimeTypes ==
    {USABLE_MIMETYPES[i] : i \in 1..Len(USABLE_MIMETYPES)}
        \cup {"multipart/mixed", "text/plain"}

SeqsUpTo(S, n) == UNION {[1..k -> S] : k \in 0..n}

\* Bytes: a byte buffer, described by what the decoders find in it.
\*   fmt "empty": the buffer has length 0 (Vec::is_empty)
\*   fmt "junk":  non-empty, no zip central directory, no gzip header
\*   fmt "zip":   a zip archive holding `entries` in directory order
\*   fmt "gzip":  a gzip header followed by a deflate stream of `data`
\* intact = FALSE: the compressed stream is damaged, reading it fails.
EmptyBytes == [fmt |-> "empty", entries |-> <<>>, data |-> "", intact |-> TRUE]
JunkBytes == [fmt |-> "junk", entries |-> <<>>, data |-> "", intact |-> TRUE]
ZipBytes(es) == [fmt |-> "zip", entries |-> es, data |-> "", intact |-> TRUE]
GzipBytes(d, good) == [fmt |-> "gzip", entries |-> <<>>, data |-> d, intact |-> good]

ReportXml == <<"r", ".", "x">>
OtherXml == <<"o", ".", "x">>

ZipEntries ==
    { [name |-> ReportXml, data |-> "<xml/>", intact |-> TRUE],
      [name |-> OtherXml, data |-> "<other/>", intact |-> TRUE],
      [name |-> ReportXml, data |-> "<xml/>", intact |-> FALSE] }

GoodZip == ZipBytes(<<[name |-> ReportXml, data |-> "<xml/>", intact |-> TRUE]>>)
GoodGzip == GzipBytes("<report/>", TRUE)

AllBytes ==
    {EmptyBytes, JunkBytes, GoodGzip, GzipBytes("<report/>", FALSE)}
        \cup {ZipBytes(es) : es \in SeqsUpTo(ZipEntries, MaxEntries)}

\* ParsedMail::get_body_raw(): Result<Vec<u8>>
BodyOk(b) == [ok |-> TRUE, bytes |-> b]
BodyErr == [ok |-> FALSE, bytes |-> EmptyBytes]

\* struct Attachment
NoAttachment ==
    [content |-> EmptyBytes, decompressed |-> None, mimetype |-> "", name |-> <<>>]

----------------------------------------------------------------------------
(* std::path: PathBuf::with_extension(""), for a name without separators *)

\* position of the last "." of s, 0 if there is none (rsplitn(2, '.'))
LastDot(s) ==
    IF \E k \in 1..Len(s) : s[k] = "."
    THEN CHOOSE k \in 1..Len(s) :
            s[k] = "." /\ \A j \in (k + 1)..Len(s) : s[j] # "."
    ELSE 0

\* Path::file_name(): None when the path ends in the component ".." (and
\* for ".", which the components iterator yields as CurDir)
file_name(s) ==
    IF s = <<".", ".">> \/ s = <<".">> \/ s = <<>> THEN None ELSE Some(s)

\* Path::file_stem(): the whole name if it has no "." or only a leading
\* one, otherwise the part before the last "."
file_stem(s) ==
    IF file_name(s) = None THEN None
    ELSE IF LastDot(s) <= 1 THEN Some(s)
    ELSE Some(SubSeq(s, 1, LastDot(s) - 1))

\* every extension removed: the name cut at its first "." past the start
strip_all_extensions(s) ==
    IF file_stem(s) = None \/ LastDot(s) <= 1 THEN s
    ELSE SubSeq(s, 1,
           (CHOOSE k \in 2..Len(s) :
               s[k] = "." /\ \A j \in 2..(k - 1) : s[j] # ".") - 1)

\* PathBuf::with_extension(""): truncate right after the file stem
with_extension_empty(s) ==
    IF file_stem(s) = None THEN s ELSE file_stem(s)[1]

----------------------------------------------------------------------------
(* get_attachment, src/main.rs 137-181 *)

\* Outcome of a call: kind "Ok" (att is the value), "Err" (msg is the
\* anyhow error) or "Panic" (msg names the unwrap that failed).  located
\* and sel record which part the function read the body of: <<>> is the
\* top-level part, <<i>> the i-th immediate child.
Locals0(mail) ==
    [content_type |-> mail.mimetype, body |-> EmptyBytes, name |-> <<>>,
     located |-> FALSE, sel |-> <<>>]

GaResult(kind, msg, loc) ==
    [kind |-> kind, msg |-> msg, located |-> loc.located, sel |-> loc.sel,
     att |-> IF kind = "Ok"
             THEN [content |-> loc.body, decompressed |-> None,
                   name |-> loc.name, mimetype |-> loc.content_type]
             ELSE NoAttachment]

\* the loop without its `break`: a later usable child replaces an earlier one
RECURSIVE scan_subparts_nobreak(_, _, _)
scan_subparts_nobreak(subparts, i, loc) ==
    IF i > Len(subparts) THEN [kind |-> "done", msg |-> "", loc |-> loc]
    ELSE LET subpart == subparts[i]
             l1 == [loc EXCEPT !.content_type = subpart.mimetype]
         IN  IF Contains(USABLE_MIMETYPES, l1.content_type)
             THEN LET l2 == [l1 EXCEPT !.located = TRUE, !.sel = <<i>>]
                  IN  IF ~subpart.body.ok
                      THEN [kind |-> "Err", msg |-> "get_body_raw", loc |-> l2]
                      ELSE IF subpart.filename = None
                      THEN [kind |-> "Panic", msg |-> "filename", loc |-> l2]
                      ELSE scan_subparts_nobreak(subparts, i + 1,
                             [l2 EXCEPT !.body = subpart.body.bytes,
                                        !.name = subpart.filename[1]])
             ELSE scan_subparts_nobreak(subparts, i + 1, l1)

\* the loop testing subpart.ctype.mimetype without storing it in content_type
RECURSIVE scan_subparts_stale_type(_, _, _)
scan_subparts_stale_type(subparts, i, loc) ==
    IF i > Len(subparts) THEN [kind |-> "done", msg |-> "", loc |-> loc]
    ELSE LET subpart == subparts[i]
         IN  IF Contains(USABLE_MIMETYPES, subpart.mimetype)
             THEN LET l2 == [loc EXCEPT !.located = TRUE, !.sel = <<i>>]
                  IN  IF ~subpart.body.ok
                      THEN [kind |-> "Err", msg |-> "get_body_raw", loc |-> l2]
                      ELSE IF subpart.filename = None
                      THEN [kind |-> "Panic", msg |-> "filename", loc |-> l2]
                      ELSE [kind |-> "done", msg |-> "",
                            loc |-> [l2 EXCEPT !.body = subpart.body.bytes,
                                               !.name = subpart.filename[1]]]
             ELSE scan_subparts_stale_type(subparts, i + 1, loc)

\* lines 153-165: the for loop over mail.subparts, from child i on
RECURSIVE scan_subparts(_, _, _)
scan_subparts(subparts, i, loc) ==
    IF i > Len(subparts) THEN [kind |-> "done", msg |-> "", loc |-> loc]
    ELSE LET subpart == subparts[i]
             l1 == [loc EXCEPT !.content_type = subpart.mimetype]
         IN  IF Contains(USABLE_MIMETYPES, l1.content_type)
             THEN LET l2 == [l1 EXCEPT !.located = TRUE, !.sel = <<i>>]
                  IN  IF ~subpart.body.ok
                      THEN [kind |-> "Err", msg |-> "get_body_raw", loc |-> l2]
                      ELSE IF subpart.filename = None
                      THEN [kind |-> "Panic", msg |-> "filename", loc |-> l2]
                      ELSE [kind |-> "done", msg |-> "",
                            loc |-> [l2 EXCEPT !.body = subpart.body.bytes,
                                               !.name = subpart.filename[1]]]
             ELSE scan_subparts(subparts, i + 1, l1)

\* the branches swapped: the children are scanned whenever there are any
select_part_children_first(mail) ==
    LET l0 == Locals0(mail)
    IN  IF mail.subparts # <<>>
        THEN scan_subparts(mail.subparts, 1, l0)
        ELSE IF Contains(USABLE_MIMETYPES, l0.content_type)
        THEN LET l1 == [l0 EXCEPT !.located = TRUE]
             IN  IF ~mail.body.ok
                 THEN [kind |-> "Panic", msg |-> "get_body_raw", loc |-> l1]
                 ELSE IF mail.filename = None
                 THEN [kind |-> "Panic", msg |-> "filename", loc |-> l1]
                 ELSE [kind |-> "done", msg |-> "",
                       loc |-> [l1 EXCEPT !.body = mail.body.bytes,
                                          !.name = mail.filename[1]]]
        ELSE [kind |-> "done", msg |-> "", loc |-> l0]

\* lines 144-166: choose the part and read its body and file name
select_part(mail) ==
    LET l0 == Locals0(mail)
    IN  IF Contains(USABLE_MIMETYPES, l0.content_type)
        THEN LET l1 == [l0 EXCEPT !.located = TRUE]
             IN  IF ~mail.body.ok
                 THEN [kind |-> "Panic", msg |-> "get_body_raw", loc |-> l1]
                 ELSE IF mail.filename = None
                 THEN [kind |-> "Panic", msg |-> "filename", loc |-> l1]
                 ELSE [kind |-> "done", msg |-> "",
                       loc |-> [l1 EXCEPT !.body = mail.body.bytes,
                                          !.name = mail.filename[1]]]
        ELSE IF mail.subparts # <<>>
        THEN scan_subparts(mail.subparts, 1, l0)
        ELSE [kind |-> "done", msg |-> "", loc |-> l0]

get_attachment(mail) ==
    LET s == select_part(mail)
    IN  IF s.kind # "done" THEN GaResult(s.kind, s.msg, s.loc)
        ELSE IF s.loc.body.fmt = "empty"
        THEN GaResult("Err", "No attachment found.", s.loc)
        ELSE IF s.loc.name = <<>>
        THEN GaResult("Err", "No file name found.", s.loc)
        ELSE GaResult("Ok", "", s.loc)

----------------------------------------------------------------------------
(* decompress_attachment, src/main.rs 111-135 *)

\* branch records which arm of the if / else if ran ("none": neither)
DaResult(kind, msg, att, branch) ==
    [kind |-> kind, msg |-> msg, att |-> att, branch |-> branch]

\* the archive's last entry taken instead of by_index(0)
decompress_zip_last(att) ==
    LET zip == att.content
    IN  IF zip.fmt # "zip"
        THEN DaResult("Panic", "ZipArchive::new", NoAttachment, "zip")
        ELSE IF Len(zip.entries) = 0
        THEN DaResult("Err", "by_index", NoAttachment, "zip")
        ELSE LET report == zip.entries[Len(zip.entries)]
             IN  IF ~report.intact
                 THEN DaResult("Err", "copy", NoAttachment, "zip")
                 ELSE DaResult("Ok", "",
                        [att EXCEPT !.name = report.name,
                                    !.decompressed = Some(report.data)],
                        "zip")

\* lines 119-122
decompress_zip(att) ==
    LET zip == att.content
    IN  IF zip.fmt # "zip"
        THEN DaResult("Panic", "ZipArchive::new", NoAttachment, "zip")
        ELSE IF Len(zip.entries) = 0
        THEN DaResult("Err", "by_index", NoAttachment, "zip")
        ELSE LET report == zip.entries[1]
             IN  IF ~report.intact
                 THEN DaResult("Err", "copy", NoAttachment, "zip")
                 ELSE DaResult("Ok", "",
                        [att EXCEPT !.name = report.name,
                                    !.decompressed = Some(report.data)],
                        "zip")

\* lines 126-130
decompress_gzip(att) ==
    LET gz == att.content
    IN  IF gz.fmt # "gzip"
        THEN DaResult("Panic", "Decoder::new", NoAttachment, "gzip")
        ELSE IF ~gz.intact
        THEN DaResult("Err", "copy", NoAttachment, "gzip")
        ELSE DaResult("Ok", "",
               [att EXCEPT !.name = with_extension_empty(att.name),
                           !.decompressed = Some(gz.data)],
               "gzip")

decompress_attachment(att) ==
    IF att.mimetype = "application/zip" THEN decompress_zip(att)
    ELSE IF att.mimetype = "application/gzip"
            \/ att.mimetype = "application/octet-stream"
    THEN decompress_gzip(att)
    ELSE DaResult("Ok", "", [att EXCEPT !.decompressed = Some("")], "none")

----------------------------------------------------------------------------
(* The messages a mailbox may hold *)

\* a MIME part as mailparse hands it over: ctype.mimetype, get_body_raw(),
\* get_content_disposition().params.get("filename"), subparts
Part(mt, b, f, sub) ==
    [mimetype |-> mt, body |-> b, filename |-> f, subparts |-> sub]

\* a fetched message: message.body() is Some, parse_mail succeeds, the
\* Message-ID header is present, and the parsed top-level part
Msg(b, p, i, root) ==
    [has_body |-> b, parses |-> p, has_message_id |-> i, root |-> root]

DeclaredName == <<"x", ".", "g">>
FileNames == {None, Some(<<>>), Some(DeclaredName), Some(<<"x">>)}

BodyResults == {BodyErr} \cup {BodyOk(b) : b \in AllBytes}

\* messages of one part: every media type with every body and file name
SinglePartMails ==
    {Part(mt, b, f, <<>>) : mt \in MimeTypes, b \in BodyResults, f \in FileNames}

GoodBytesFor(mt) == IF mt = "application/zip" THEN GoodZip ELSE GoodGzip

\* a child that is itself a container, holding a usable part one level deeper
NestedChild ==
    Part("multipart/mixed", BodyOk(EmptyBytes), None,
         <<Part("application/zip", BodyOk(GoodZip), Some(DeclaredName), <<>>)>>)

UsableChildren(mt) ==
    {Part(mt, b, f, <<>>) :
        b \in {BodyErr, BodyOk(EmptyBytes), BodyOk(GoodBytesFor(mt))},
        f \in {None, Some(DeclaredName)}}

ChildParts ==
    UsableChildren("application/zip") \cup UsableChildren("application/gzip")
    \cup {Part("text/plain", BodyOk(JunkBytes), None, <<>>), NestedChild}

\* a multipart container with 1..MaxSubparts children
MultipartMails ==
    {Part("multipart/mixed", BodyOk(EmptyBytes), None, cs) :
        cs \in SeqsUpTo(ChildParts, MaxSubparts) \ {<<>>}}

\* a usable top-level part that also has a usable child
UsableTopMails ==
    {Part("application/octet-stream", b, f,
          <<Part("application/zip", BodyOk(GoodZip), Some(DeclaredName), <<>>)>>) :
        b \in {BodyOk(GoodGzip), BodyOk(EmptyBytes)},
        f \in {None, Some(<<"x">>)}}

Mails == SinglePartMails \cup MultipartMails \cup UsableTopMails

PlainMail == Part("text/plain", BodyOk(JunkBytes), None, <<>>)
NoMessage == Msg(FALSE, FALSE, FALSE, PlainMail)

Messages ==
    {Msg(TRUE, TRUE, TRUE, r) : r \in Mails}
    \cup {Msg(FALSE, FALSE, FALSE, PlainMail),      \* message.body() is None
          Msg(TRUE, FALSE, FALSE, PlainMail),       \* parse_mail fails
          Msg(TRUE, TRUE, FALSE, PlainMail)}        \* no Message-ID header

\* one-part messages with every declared name of up to MaxNameLen characters
NameChars == {"x", "g", "."}
Names == SeqsUpTo(NameChars, MaxNameLen)
TwoEntryZip ==
    ZipBytes(<<[name |-> OtherXml, data |-> "<other/>", intact |-> TRUE],
               [name |-> ReportXml, data |-> "<xml/>", intact |-> TRUE]>>)
NamedMessages ==
    {Msg(TRUE, TRUE, TRUE, Part(mt, BodyOk(b), Some(n), <<>>)) :
        mt \in {USABLE_MIMETYPES[i] : i \in 1..Len(USABLE_MIMETYPES)},
        b \in {GoodGzip, TwoEntryZip, JunkBytes},
        n \in Names}

----------------------------------------------------------------------------
(* main, src/main.rs 79-108 *)

\* a panic unwinds main: the process ends, nothing after it runs
Abort(cause) ==
    /\ pc' = "panicked"
    /\ panic' = cause
    /\ state' = "Aborted"

\* lines 105-106: the loop body ends (normally or by `continue`); its
\* locals are dropped and the loop is back at its head
EndIteration(outcome) ==
    /\ pc' = "loop"
    /\ state' = outcome
    /\ message' = NoMessage

\* lines 79-86: the loop takes the next message, parses it and reads its
\* Message-ID
NextMessageFrom(mailbox) ==
    /\ pc = "loop"
    /\ idx < message_count
    /\ \E m \in mailbox :
        /\ idx' = idx + 1
        /\ stderr' = <<>>
        /\ IF ~m.has_body
           THEN EndIteration("Ignored") /\ panic' = panic
           ELSE /\ message' = m
                /\ IF ~m.parses THEN Abort("parse_mail")
                   ELSE IF ~m.has_message_id THEN Abort("Message-ID")
                   ELSE pc' = "get_attachment" /\ state' = "Parsed" /\ panic' = panic
    /\ UNCHANGED <<message_count, attachment, files>>

NextMessage == NextMessageFrom(Messages)

\* lines 88-94
GetAttachment ==
    /\ pc = "get_attachment"
    /\ LET r == get_attachment(message.root)
       IN  IF r.kind = "Ok"
           THEN /\ attachment' = r.att
                /\ pc' = "decompress"
                /\ state' = "Extracted"
                /\ UNCHANGED <<stderr, panic, message>>
           ELSE IF r.kind = "Err"
           THEN /\ stderr' = Append(stderr, r.msg)
                /\ EndIteration("Skipped")
                /\ UNCHANGED <<attachment, panic>>
           ELSE /\ Abort(r.msg)
                /\ UNCHANGED <<attachment, stderr, message>>
    /\ UNCHANGED <<message_count, idx, files>>

\* the error of decompress_attachment dropped (unwrap_or of the input): the
\* loop body goes on to create the file
DecompressLenient ==
    /\ pc = "decompress"
    /\ LET r == decompress_attachment(attachment)
       IN  /\ attachment' = IF r.kind = "Ok" THEN r.att
                            ELSE [attachment EXCEPT !.decompressed = Some("")]
           /\ pc' = "create"
           /\ state' = "Decompressed"
           /\ UNCHANGED panic
    /\ UNCHANGED <<message_count, idx, message, files, stderr>>

\* line 96: decompress_attachment(attachment).unwrap()
Decompress ==
    /\ pc = "decompress"
    /\ LET r == decompress_attachment(attachment)
       IN  IF r.kind = "Ok"
           THEN /\ attachment' = r.att
                /\ pc' = "create"
                /\ state' = "Decompressed"
                /\ UNCHANGED panic
           ELSE /\ Abort(IF r.kind = "Panic" THEN r.msg ELSE "decompress_attachment")
                /\ UNCHANGED attachment
    /\ UNCHANGED <<message_count, idx, message, files, stderr>>

\* lines 98-100: File::create(&filepath).expect(..); creating truncates
CreateFile ==
    /\ pc = "create"
    /\ \E created \in BOOLEAN :
        IF created
        THEN /\ files' = [n \in DOMAIN files \cup {attachment.name} |->
                            IF n = attachment.name THEN "" ELSE files[n]]
             /\ pc' = "write"
             /\ state' = "Created"
             /\ UNCHANGED panic
        ELSE /\ Abort("File::create")
             /\ UNCHANGED files
    /\ UNCHANGED <<message_count, idx, message, attachment, stderr>>

\* lines 101-104: write_all; an error is printed and the loop goes on
WriteFile ==
    /\ pc = "write"
    /\ \E written \in BOOLEAN :
        IF written
        THEN /\ files' = [files EXCEPT ![attachment.name] = attachment.decompressed[1]]
             /\ EndIteration("Written")
             /\ UNCHANGED stderr
        ELSE /\ stderr' = Append(stderr, "io error")
             /\ EndIteration("WriteFailed")
             /\ UNCHANGED files
    /\ attachment' = NoAttachment
    /\ UNCHANGED <<message_count, idx, panic>>

\* lines 107-108: after the last message, logout().unwrap() and "Finished!"
Logout ==
    /\ pc = "loop"
    /\ idx = message_count
    /\ \E done \in BOOLEAN :
        IF done
        THEN pc' = "finished" /\ UNCHANGED <<panic, state>>
        ELSE Abort("logout")
    /\ UNCHANGED <<message_count, idx, message, attachment, files, stderr>>

\* the state at line 78: connected, the messages fetched, nothing processed
InitWith(counts) ==
    /\ pc = "loop"
    /\ message_count \in counts
    /\ idx = 0
    /\ message = NoMessage
    /\ attachment = NoAttachment
    /\ files = [n \in {} |-> ""]
    /\ stderr = <<>>
    /\ state = "None"
    /\ panic = ""

Init == InitWith(0..MaxBatch)

Next ==
    \/ NextMessage
    \/ GetAttachment
    \/ Decompress
    \/ CreateFile
    \/ WriteFile
    \/ Logout

Spec == Init /\ [][Next]_vars

\* a mailbox of one message, of one part, with any declared name
InitNames == InitWith({1})

NextNamedMessage == NextMessageFrom(NamedMessages)

NextNames ==
    \/ NextNamedMessage
    \/ GetAttachment
    \/ Decompress
    \/ CreateFile
    \/ WriteFile
    \/ Logout

SpecNames == InitNames /\ [][NextNames]_vars

----------------------------------------------------------------------------
(* Vocabulary of the properties, stated on the message, not on the code *)

Usable(mt) ==
    mt \in {"application/zip", "application/gzip", "application/octet-stream"}

\* the message of the current iteration has been parsed
Parsed == message # NoMessage /\ message.parses /\ message.has_message_id

\* indices of the immediate children that declare a usable media type
UsableChildIndices(mail) ==
    {i \in 1..Len(mail.subparts) : Usable(mail.subparts[i].mimetype)}

\* some part is to be located: the top-level part or an immediate child
HasUsablePart(mail) == Usable(mail.mimetype) \/ UsableChildIndices(mail) # {}

\* the part to be located: the top-level part if usable, otherwise the
\* first usable immediate child
ExpectedSel(mail) ==
    IF Usable(mail.mimetype) THEN <<>>
    ELSE <<CHOOSE i \in UsableChildIndices(mail) :
                \A j \in UsableChildIndices(mail) : i <= j>>

PartAt(mail, sel) == IF sel = <<>> THEN mail ELSE mail.subparts[sel[1]]

ExpectedPart(mail) == PartAt(mail, ExpectedSel(mail))

\* the part has a non-empty body and a non-empty declared file name
Complete(p) ==
    /\ p.body.ok /\ p.body.bytes.fmt # "empty"
    /\ p.filename # None /\ p.filename[1] # <<>>

\* the bytes decompress under the format the media type stands for
ValidContainer(mt, bytes) ==
    IF mt = "application/zip"
    THEN bytes.fmt = "zip" /\ Len(bytes.entries) >= 1 /\ bytes.entries[1].intact
    ELSE bytes.fmt = "gzip" /\ bytes.intact

\* locating, extracting and decompressing all succeed for the message
PipelineSucceeds(m) ==
    /\ m # NoMessage /\ m.has_body /\ m.parses /\ m.has_message_id
    /\ HasUsablePart(m.root)
    /\ Complete(ExpectedPart(m.root))
    /\ ValidContainer(ExpectedPart(m.root).mimetype,
                      ExpectedPart(m.root).body.bytes)

----------------------------------------------------------------------------
(* C4 *)

\* C4: get_attachment reads the top-level part if its media type is one of
\* the three usable types; otherwise the first immediate child, in order,
\* whose media type is usable; never a part nested deeper; and if there is
\* no such part it reports "No attachment found." without reading any part.
C4_PartLocation ==
    (pc = "get_attachment") =>
        LET mail == message.root
            r == get_attachment(mail)
        IN  /\ Len(r.sel) <= 1
            /\ HasUsablePart(mail) => r.located /\ r.sel = ExpectedSel(mail)
            /\ ~HasUsablePart(mail) =>
                   /\ ~r.located
                   /\ r.kind = "Err" /\ r.msg = "No attachment found."

\* a container whose second child is the first usable one and whose third
\* (or second) child qualifies too: the attachment is the earlier child's
C4_Witness ==
    /\ pc = "decompress"
    /\ ~Usable(message.root.mimetype)
    /\ Cardinality(UsableChildIndices(message.root)) >= 2
    /\ attachment.mimetype = ExpectedPart(message.root).mimetype
    /\ get_attachment(message.root).sel = ExpectedSel(message.root)

----------------------------------------------------------------------------
(* C5 *)

\* some part, top-level or immediate child, is usable and complete
AnyPartComplete(mail) ==
    \/ Usable(mail.mimetype) /\ Complete(mail)
    \/ \E i \in UsableChildIndices(mail) : Complete(mail.subparts[i])

\* the attachment carries the body and declared name of part p
Carries(att, p) ==
    /\ p.body.ok /\ att.content = p.body.bytes
    /\ p.filename = Some(att.name)
    /\ att.decompressed = None

\* no unwrap of get_attachment can fail on the message: every usable part,
\* top-level or immediate child, has a decodable body and a filename parameter
NoUnwrapFails(mail) ==
    /\ Usable(mail.mimetype) => mail.body.ok /\ mail.filename # None
    /\ \A i \in UsableChildIndices(mail) :
         mail.subparts[i].body.ok /\ mail.subparts[i].filename # None

\* C5 as stated: whenever the top-level part or any immediate child declares
\* a usable media type and has a non-empty body and file name, extraction
\* succeeds and returns that part's bytes and name.  (Stated for the messages
\* on which no unwrap can fail, so that a violation is get_attachment's
\* returned error and owes nothing to a panic.)
C5_AnyCompletePartExtracted ==
    (pc = "get_attachment" /\ AnyPartComplete(message.root)
                           /\ NoUnwrapFails(message.root)) =>
        LET mail == message.root
            r == get_attachment(mail)
        IN  /\ r.kind = "Ok"
            /\ \/ Usable(mail.mimetype) /\ Complete(mail) /\ Carries(r.att, mail)
               \/ \E i \in UsableChildIndices(mail) :
                    Complete(mail.subparts[i]) /\ Carries(r.att, mail.subparts[i])

\* C5 amended: whenever the located part (the top-level part if usable,
\* otherwise the first usable immediate child) has a non-empty body and a
\* non-empty file name, extraction succeeds, and the attachment it returns
\* to main is exactly that part's bytes, name and media type, with
\* decompressed unset.
C5_LocatedCompletePartExtracted ==
    (Parsed /\ HasUsablePart(message.root)
            /\ Complete(ExpectedPart(message.root))) =>
        LET p == ExpectedPart(message.root)
        IN  /\ pc = "get_attachment" => get_attachment(message.root).kind = "Ok"
            /\ state = "Aborted" => panic \notin {"get_body_raw", "filename"}
            /\ state = "Extracted" =>
                 attachment = [content |-> p.body.bytes,
                               decompressed |-> None,
                               mimetype |-> p.mimetype,
                               name |-> p.filename[1]]

\* a usable, complete top-level part that also has a usable child has just
\* been extracted
C5_Witness ==
    /\ pc = "decompress" /\ state = "Extracted"
    /\ Usable(message.root.mimetype) /\ UsableChildIndices(message.root) # {}
    /\ Carries(attachment, message.root)

----------------------------------------------------------------------------
(* C10 *)

\* C10: an Attachment returned by get_attachment has a usable mimetype, the
\* declared type of the very part whose body and file name it carries; so
\* decompress_attachment takes the zip or the gzip arm, and what it returns
\* holds the payload that arm decoded, not the buffer left by falling through.
C10_MimetypeOfCarriedPart ==
    /\ pc = "decompress" =>
         LET r == get_attachment(message.root)
             p == PartAt(message.root, r.sel)
         IN  /\ Usable(attachment.mimetype)
             /\ attachment.mimetype = p.mimetype
             /\ Carries(attachment, p)
             /\ decompress_attachment(attachment).branch \in {"zip", "gzip"}
    /\ pc \in {"create", "write"} =>
         /\ Usable(attachment.mimetype)
         /\ attachment.decompressed \notin {None, Some("")}

\* a child's attachment, found after a child of another type was passed over
C10_Witness ==
    /\ pc = "create"
    /\ ~Usable(message.root.mimetype)
    /\ ExpectedSel(message.root) = <<2>>
    /\ attachment.mimetype = message.root.subparts[2].mimetype
    /\ attachment.decompressed # None

----------------------------------------------------------------------------
(* C6 *)

\* C6: the output directory changes (a file is created, truncated or
\* written) only while the message being processed is one whose part was
\* located, extracted and decompressed successfully; a message with no
\* usable part never changes it.
C6_NothingWrittenBeforePipelineSucceeds ==
    [][files' # files => PipelineSucceeds(message)]_vars

\* the file of the current message has been created and not yet written
C6_Witness ==
    /\ pc = "write"
    /\ attachment.name \in DOMAIN files
    /\ files[attachment.name] = ""
    /\ PipelineSucceeds(message)

----------------------------------------------------------------------------
(* C7 *)

\* the name has an extension: a "." past its first character, and the name
\* is not the parent-directory component ".."
HasExtension(n) ==
    n # <<".", ".">> /\ \E k \in 2..Len(n) : n[k] = "."

\* C7: after a gzip-stream attachment (application/gzip or
\* application/octet-stream) has been decompressed, its name is the declared
\* name cut before its last ".", so that exactly the one trailing extension
\* is gone; a declared name without extension is unchanged.
C7_GzipNameStripsOneExtension ==
    (pc = "create" /\ attachment.mimetype # "application/zip") =>
        LET declared == ExpectedPart(message.root).filename[1]
            out == attachment.name
        IN  IF HasExtension(declared)
            THEN \E k \in 2..Len(declared) :
                    /\ declared[k] = "."
                    /\ \A j \in (k + 1)..Len(declared) : declared[j] # "."
                    /\ out = SubSeq(declared, 1, k - 1)
            ELSE out = declared

\* x.x.g has been decompressed to x.x
C7_Witness ==
    /\ pc = "create"
    /\ attachment.mimetype = "application/gzip"
    /\ message.root.filename = Some(<<"x", ".", "x", ".", "g">>)
    /\ attachment.name = <<"x", ".", "x">>

----------------------------------------------------------------------------
(* C8 *)

\* C8: after a zip attachment has been decompressed, its payload is the
\* content of the archive's first entry and its name is that entry's
\* recorded name, whatever the declared file name and the later entries.
C8_ZipFirstEntry ==
    (pc = "create" /\ attachment.mimetype = "application/zip") =>
        LET first == ExpectedPart(message.root).body.bytes.entries[1]
        IN  /\ attachment.decompressed = Some(first.data)
            /\ attachment.name = first.name

\* an archive of two different entries, declared under another name
C8_Witness ==
    /\ pc = "create"
    /\ attachment.mimetype = "application/zip"
    /\ Len(attachment.content.entries) = 2
    /\ attachment.content.entries[1] # attachment.content.entries[2]
    /\ attachment.name = attachment.content.entries[1].name
    /\ message.root.filename # Some(attachment.name)

----------------------------------------------------------------------------
(* C1, C2, C3, C9: what the specification asks of per-message failures *)

\* C1: no per-message error ends the batch: the process is never aborted by
\* the handling of a message (only the session's logout may fail).
C1_NoMessageAbortsBatch ==
    pc = "panicked" => panic = "logout"

\* the bytes are not what the media type stands for: no zip archive, or one
\* whose first entry is damaged; no gzip stream, or a damaged one
Corrupt(mt, bytes) ==
    IF mt = "application/zip"
    THEN bytes.fmt # "zip"
            \/ (Len(bytes.entries) >= 1 /\ ~bytes.entries[1].intact)
    ELSE bytes.fmt # "gzip" \/ ~bytes.intact

\* C2: once decompression has been tried on an extracted attachment whose
\* bytes are corrupt, the message ends Skipped and the loop is back at its
\* head for the next message.
C2_CorruptAttachmentSkipped ==
    (/\ attachment # NoAttachment
     /\ Corrupt(attachment.mimetype, attachment.content)
     /\ state # "Extracted") =>
        state = "Skipped" /\ pc = "loop"

\* C3: once get_attachment has run on a message whose located part has an
\* empty body, or no filename parameter, or an empty one, the message ends
\* Skipped with the cause logged and the loop is back at its head.
C3_IncompletePartSkipped ==
    (/\ Parsed /\ state # "Parsed"
     /\ HasUsablePart(message.root)
     /\ ExpectedPart(message.root).body.ok
     /\ ~Complete(ExpectedPart(message.root))) =>
        state = "Skipped" /\ pc = "loop" /\ stderr # <<>>

\* C9: once a message has been decompressed, a failure of the storage step
\* (creating the file or writing it) does not abort the run.
C9_StorageFailureDoesNotAbort ==
    attachment.decompressed # None => pc # "panicked"

====
